---- MODULE Spec2Model ----
(***************************************************************************)
(* State-machine model of the React hooks of the Knowledge Assistant       *)
(* front end (useDocuments, useEmbedding, useChat, useSettings) and of the *)
(* components that gate their operations (ChatInput, IndexStatus,          *)
(* DocumentList, MainLayout).                                              *)
(*                                                                         *)
(* Every `await invoke(...)` is split in three steps: the hook sends the   *)
(* command (pc "..invoked"), the backend answers it (resolve or reject),   *)
(* and the continuation of the async function consumes the answer.         *)
(* setTimeout timers live in `timers`; time advances in ticks of 500 ms.   *)
(* A render is taken to follow every state update at once, so a component  *)
(* guard reads the current hook state, and the effects of that render run  *)
(* in the step that made the update.                                       *)
(***************************************************************************)
EXTENDS Naturals, Integers, Sequences, FiniteSets, TLC

(* ------------------------------ bounds -------------------------------- *)
MaxUploads == 1
MaxRebuilds == 2
MaxDeletes == 1
MaxRetries == 1
MaxSearches == 2
MaxChats == 2
MaxCreates == 1
MaxSends == 2
MaxChatDeletes == 1
\* get_chat calls in flight at a time
MaxLoads == 1

(* ----------------------- program constants ---------------------------- *)
\* setTimeout delays, in ticks of 500 ms
UploadIndexTicks == 3
RebuildTicks == 4
ThinkingTicks == 2

null == "null"
\* activeChatId === null (chat ids are positive)
NoChat == 0

VARIABLES
  \* useDocuments
  documents, indexStatus, isUploading, docsInitializing, docsError,
  loadDocs, upload, deletes,
  \* document store behind the commands
  beDocs,
  \* pending setTimeout callbacks
  timers,
  \* useEmbedding
  modelStatus, embError, searchResults, isSearching,
  initCall, retries, searches,
  \* embedding backend
  beModelLoaded,
  \* useChat
  chats, activeChatId, isLoading, chatInitializing, chatError,
  loadChats, creates, sends, loads, chatDeletes,
  \* chat store behind the commands
  beChats, beMsgCount, beChatCount,
  \* counters of the operations requested so far
  nUploads, nRebuilds, nDeletes, nRetries, nCreates, nSends, nChatDeletes,
  \* useSettings, and the value under its key in localStorage
  settings, storage, settingsPersisted,
  \* the last call made to useSettings: none, update or reset
  settingsOp

docVars == <<documents, indexStatus, isUploading, docsInitializing, docsError,
             loadDocs, upload, deletes, beDocs, nUploads, nRebuilds, nDeletes>>
embVars == <<modelStatus, embError, searchResults, isSearching,
             initCall, retries, searches, beModelLoaded, nRetries>>
chatVars == <<chats, activeChatId, isLoading, chatInitializing, chatError,
              loadChats, creates, sends, loads, beChats, beMsgCount, nCreates, nSends,
             chatDeletes, nChatDeletes, beChatCount>>
setVars == <<settings, storage, settingsPersisted, settingsOp>>
vars == <<docVars, timers, embVars, chatVars, setVars>>

\* what an operation of one hook leaves alone in the others
nonDocVars == <<embVars, chatVars, setVars>>
nonEmbVars == <<docVars, timers, chatVars, setVars>>
nonChatVars == <<docVars, embVars, setVars>>
nonSetVars == <<docVars, timers, embVars, chatVars>>

(* ------------------------------ helpers ------------------------------- *)
RemoveAt(s, i) == SubSeq(s, 1, i - 1) \o SubSeq(s, i + 1, Len(s))

\* Array.prototype.filter((d) => d.id !== x)
RECURSIVE FilterOut(_, _)
FilterOut(s, x) ==
  IF s = <<>> THEN <<>>
  ELSE IF Head(s) = x THEN FilterOut(Tail(s), x)
       ELSE <<Head(s)>> \o FilterOut(Tail(s), x)

Range(s) == {s[i] : i \in 1..Len(s)}

\* setTimeout(cb, ticks * 500)
\* ref names the sendMessage call a timer belongs to (0: none)
SetTimeout(ts, kind, ref, ticks) == Append(ts, [kind |-> kind, ref |-> ref, rem |-> ticks])

IndexTimers == {i \in 1..Len(timers) : timers[i].kind \in {"upload", "rebuild"}}
RebuildsRunning == {i \in 1..Len(timers) : timers[i].kind = "rebuild"}

(* ============================ useDocuments ============================ *)

DocsInit ==
  /\ documents = <<>>
  /\ indexStatus = "ready"
  /\ isUploading = FALSE
  /\ docsInitializing = TRUE
  /\ docsError = null
  /\ loadDocs = [pc |-> "start", snap |-> <<>>]
  /\ upload = [pc |-> "idle", doc |-> 0, ret |-> "none"]
  /\ deletes = {}
  /\ beDocs \in {<<>>, <<0>>}
  /\ nUploads = 0
  /\ nRebuilds = 0
  /\ nDeletes = 0

\* the mount effect has run: the UI's handlers are called only after it
DocsMounted == loadDocs.pc # "start"

\* useEffect(loadDocuments, []) up to the await
LoadDocumentsStart ==
  /\ loadDocs.pc = "start"
  /\ docsInitializing' = TRUE
  /\ docsError' = null
  /\ loadDocs' = [loadDocs EXCEPT !.pc = "invoked"]
  /\ UNCHANGED <<documents, indexStatus, isUploading, upload, deletes, beDocs,
                 nUploads, nRebuilds, nDeletes, timers>>
  /\ UNCHANGED nonDocVars

\* get_all_documents resolves with the store's documents, or rejects
BackendGetAllDocuments ==
  /\ loadDocs.pc = "invoked"
  /\ \/ loadDocs' = [pc |-> "ok", snap |-> beDocs]
     \/ loadDocs' = [pc |-> "err", snap |-> <<>>]
  /\ UNCHANGED <<documents, indexStatus, isUploading, docsInitializing, docsError,
                 upload, deletes, beDocs, nUploads, nRebuilds, nDeletes, timers>>
  /\ UNCHANGED nonDocVars

LoadDocumentsOk ==
  /\ loadDocs.pc = "ok"
  /\ documents' = loadDocs.snap
  /\ docsInitializing' = FALSE
  /\ loadDocs' = [pc |-> "done", snap |-> <<>>]
  /\ UNCHANGED <<indexStatus, isUploading, docsError, upload, deletes, beDocs,
                 nUploads, nRebuilds, nDeletes, timers>>
  /\ UNCHANGED nonDocVars

LoadDocumentsErr ==
  /\ loadDocs.pc = "err"
  /\ docsError' = "load failed"
  /\ docsInitializing' = FALSE
  /\ loadDocs' = [pc |-> "done", snap |-> <<>>]
  /\ UNCHANGED <<documents, indexStatus, isUploading, upload, deletes, beDocs,
                 nUploads, nRebuilds, nDeletes, timers>>
  /\ UNCHANGED nonDocVars

\* the upload button of DocumentList (disabled while isUploading) calls
\* uploadDocument, which clears the error and opens the native file dialog;
\* upload.ret is what the last call returned ("null" or the "document")
UploadClick ==
  /\ DocsMounted
  /\ ~isUploading
  /\ upload.pc = "idle"
  /\ nUploads < MaxUploads
  /\ docsError' = null
  /\ upload' = [pc |-> "dialog", doc |-> 0, ret |-> "pending"]
  /\ nUploads' = nUploads + 1
  /\ UNCHANGED <<documents, indexStatus, isUploading, docsInitializing, loadDocs,
                 deletes, beDocs, nRebuilds, nDeletes, timers>>
  /\ UNCHANGED nonDocVars

\* open() resolves with null: uploadDocument returns null (finally runs)
DialogCancel ==
  /\ upload.pc = "dialog"
  /\ upload' = [pc |-> "idle", doc |-> 0, ret |-> "null"]
  /\ isUploading' = FALSE
  /\ UNCHANGED <<documents, indexStatus, docsInitializing, docsError, loadDocs,
                 deletes, beDocs, nUploads, nRebuilds, nDeletes, timers>>
  /\ UNCHANGED nonDocVars

\* open() resolves with a path: setIsUploading(true), invoke upload_document
DialogSelect ==
  /\ upload.pc = "dialog"
  /\ isUploading' = TRUE
  /\ upload' = [pc |-> "invoked", doc |-> 0, ret |-> "pending"]
  /\ UNCHANGED <<documents, indexStatus, docsInitializing, docsError, loadDocs,
                 deletes, beDocs, nUploads, nRebuilds, nDeletes, timers>>
  /\ UNCHANGED nonDocVars

\* upload_document stores the document under a fresh id and resolves with
\* it, or rejects and stores nothing
BackendUpload ==
  /\ upload.pc = "invoked"
  /\ \/ /\ upload' = [pc |-> "ok", doc |-> nUploads, ret |-> "pending"]
        /\ beDocs' = Append(beDocs, nUploads)
     \/ /\ upload' = [pc |-> "err", doc |-> 0, ret |-> "pending"]
        /\ UNCHANGED beDocs
  /\ UNCHANGED <<documents, indexStatus, isUploading, docsInitializing, docsError,
                 loadDocs, deletes, nUploads, nRebuilds, nDeletes, timers>>
  /\ UNCHANGED nonDocVars

\* the upload's indexing phase: setIndexStatus('indexing') and the timer
\* that sets 'ready' again
UploadIndexing_NoTimer(ts) == ts
UploadIndexing(ts) == SetTimeout(ts, "upload", 0, UploadIndexTicks)

\* uploadDocument after the await, success path, and finally
UploadOk ==
  /\ upload.pc = "ok"
  /\ documents' = Append(documents, upload.doc)
  /\ indexStatus' = "indexing"
  /\ timers' = UploadIndexing(timers)
  /\ isUploading' = FALSE
  /\ upload' = [pc |-> "idle", doc |-> 0, ret |-> "document"]
  /\ UNCHANGED <<docsInitializing, docsError, loadDocs, deletes, beDocs,
                 nUploads, nRebuilds, nDeletes>>
  /\ UNCHANGED nonDocVars

\* uploadDocument's catch without its setError, and finally
UploadErr_NoSetError ==
  /\ upload.pc = "err"
  /\ isUploading' = FALSE
  /\ upload' = [pc |-> "idle", doc |-> 0, ret |-> "null"]
  /\ UNCHANGED <<documents, indexStatus, docsInitializing, docsError, loadDocs, deletes,
                 beDocs, nUploads, nRebuilds, nDeletes, timers>>
  /\ UNCHANGED nonDocVars

\* uploadDocument's catch, and finally
UploadErr ==
  /\ upload.pc = "err"
  /\ docsError' = "upload failed"
  /\ isUploading' = FALSE
  /\ upload' = [pc |-> "idle", doc |-> 0, ret |-> "null"]
  /\ UNCHANGED <<documents, indexStatus, docsInitializing, loadDocs, deletes,
                 beDocs, nUploads, nRebuilds, nDeletes, timers>>
  /\ UNCHANGED nonDocVars

\* the trash button of a listed document calls deleteDocument(d): the
\* optimistic removal, then invoke delete_document_cmd
DeleteDocument(d) ==
  /\ d \in Range(documents)
  /\ nDeletes < MaxDeletes
  /\ docsError' = null
  /\ documents' = FilterOut(documents, d)
  /\ deletes' = deletes \cup {[id |-> nDeletes + 1, doc |-> d, pc |-> "invoked",
                               snap |-> <<>>]}
  /\ nDeletes' = nDeletes + 1
  /\ UNCHANGED <<indexStatus, isUploading, docsInitializing, loadDocs, upload,
                 beDocs, nUploads, nRebuilds, timers>>
  /\ UNCHANGED nonDocVars

\* delete_document_cmd removes the document and resolves, or rejects
BackendDelete(c) ==
  /\ c \in deletes
  /\ c.pc = "invoked"
  /\ \/ /\ deletes' = (deletes \ {c}) \cup {[c EXCEPT !.pc = "ok"]}
        /\ beDocs' = FilterOut(beDocs, c.doc)
     \/ /\ deletes' = (deletes \ {c}) \cup {[c EXCEPT !.pc = "err"]}
        /\ UNCHANGED beDocs
  /\ UNCHANGED <<documents, indexStatus, isUploading, docsInitializing, docsError,
                 loadDocs, upload, nUploads, nRebuilds, nDeletes, timers>>
  /\ UNCHANGED nonDocVars

\* deleteDocument returns after a successful delete
DeleteOk(c) ==
  /\ c \in deletes
  /\ c.pc = "ok"
  /\ deletes' = deletes \ {c}
  /\ UNCHANGED <<documents, indexStatus, isUploading, docsInitializing, docsError,
                 loadDocs, upload, beDocs, nUploads, nRebuilds, nDeletes, timers>>
  /\ UNCHANGED nonDocVars

\* deleteDocument's catch: setError, then invoke get_all_documents
DeleteErr(c) ==
  /\ c \in deletes
  /\ c.pc = "err"
  /\ docsError' = "delete failed"
  /\ deletes' = (deletes \ {c}) \cup {[c EXCEPT !.pc = "reload_invoked"]}
  /\ UNCHANGED <<documents, indexStatus, isUploading, docsInitializing, loadDocs,
                 upload, beDocs, nUploads, nRebuilds, nDeletes, timers>>
  /\ UNCHANGED nonDocVars

\* the reload's get_all_documents resolves or rejects
BackendReload(c) ==
  /\ c \in deletes
  /\ c.pc = "reload_invoked"
  /\ \/ deletes' = (deletes \ {c}) \cup {[c EXCEPT !.pc = "reload_ok", !.snap = beDocs]}
     \/ deletes' = (deletes \ {c}) \cup {[c EXCEPT !.pc = "reload_err"]}
  /\ UNCHANGED <<documents, indexStatus, isUploading, docsInitializing, docsError,
                 loadDocs, upload, beDocs, nUploads, nRebuilds, nDeletes, timers>>
  /\ UNCHANGED nonDocVars

\* setDocuments(backendDocs.map(convertBackendDocument)) in the catch
ReloadOk(c) ==
  /\ c \in deletes
  /\ c.pc = "reload_ok"
  /\ documents' = c.snap
  /\ deletes' = deletes \ {c}
  /\ UNCHANGED <<indexStatus, isUploading, docsInitializing, docsError, loadDocs,
                 upload, beDocs, nUploads, nRebuilds, nDeletes, timers>>
  /\ UNCHANGED nonDocVars

\* the reload rejects inside the catch: deleteDocument's promise rejects
ReloadErr(c) ==
  /\ c \in deletes
  /\ c.pc = "reload_err"
  /\ deletes' = deletes \ {c}
  /\ UNCHANGED <<documents, indexStatus, isUploading, docsInitializing, docsError,
                 loadDocs, upload, beDocs, nUploads, nRebuilds, nDeletes, timers>>
  /\ UNCHANGED nonDocVars

\* the Rebuild button of IndexStatus (disabled while 'indexing') calls
\* rebuildIndex: setIndexStatus('indexing'), then the 2000 ms wait
RebuildClick ==
  /\ DocsMounted
  /\ indexStatus # "indexing"
  /\ nRebuilds < MaxRebuilds
  /\ indexStatus' = "indexing"
  /\ timers' = SetTimeout(timers, "rebuild", 0, RebuildTicks)
  /\ nRebuilds' = nRebuilds + 1
  /\ UNCHANGED <<documents, isUploading, docsInitializing, docsError, loadDocs,
                 upload, deletes, beDocs, nUploads, nDeletes>>
  /\ UNCHANGED nonDocVars

\* the callback of an upload's timer, or rebuildIndex after its wait:
\* both setIndexStatus('ready')
IndexTimerFire(i) ==
  /\ i \in IndexTimers
  /\ timers[i].rem = 0
  /\ indexStatus' = "ready"
  /\ timers' = RemoveAt(timers, i)
  /\ UNCHANGED <<documents, isUploading, docsInitializing, docsError, loadDocs,
                 upload, deletes, beDocs, nUploads, nRebuilds, nDeletes>>
  /\ UNCHANGED nonDocVars

(* =============================== time ================================ *)
\* 500 ms pass; a timer that is due runs before time moves on
Tick ==
  /\ timers # <<>>
  /\ \A i \in 1..Len(timers) : timers[i].rem > 0
  /\ timers' = [i \in 1..Len(timers) |-> [timers[i] EXCEPT !.rem = @ - 1]]
  /\ UNCHANGED <<docVars, embVars, chatVars, setVars>>

(* ============================ useEmbedding ============================ *)
\* query strings, as sequences of characters
Queries == {<<>>, <<" ">>, <<"a">>, <<" ", "a">>}
TopKs == {1, 5}

\* String.prototype.trim
RECURSIVE TrimLeft(_)
TrimLeft(s) == IF s # <<>> /\ Head(s) = " " THEN TrimLeft(Tail(s)) ELSE s
RECURSIVE TrimRight(_)
TrimRight(s) ==
  IF s # <<>> /\ s[Len(s)] = " " THEN TrimRight(SubSeq(s, 1, Len(s) - 1)) ELSE s
Trim(s) == TrimRight(TrimLeft(s))

EmbInit ==
  /\ modelStatus = "not_loaded"
  /\ embError = null
  /\ searchResults = <<>>
  /\ isSearching = FALSE
  /\ initCall = [pc |-> "start", loaded |-> FALSE]
  /\ retries = {}
  /\ searches = <<>>
  /\ beModelLoaded \in BOOLEAN
  /\ nRetries = 0

\* the mount effect has run: the hook's functions are called only after it
EmbMounted == initCall.pc # "start"

\* useEffect(initModel, []) up to the first await
InitModelStart ==
  /\ initCall.pc = "start"
  /\ modelStatus' = "loading"
  /\ embError' = null
  /\ initCall' = [initCall EXCEPT !.pc = "check_invoked"]
  /\ UNCHANGED <<searchResults, isSearching, retries, searches, beModelLoaded, nRetries>>
  /\ UNCHANGED nonEmbVars

\* is_model_loaded resolves with the backend's flag, or rejects
BackendIsModelLoaded ==
  /\ initCall.pc = "check_invoked"
  /\ \/ initCall' = [pc |-> "check_ok", loaded |-> beModelLoaded]
     \/ initCall' = [pc |-> "check_err", loaded |-> FALSE]
  /\ UNCHANGED <<modelStatus, embError, searchResults, isSearching, retries, searches,
                 beModelLoaded, nRetries>>
  /\ UNCHANGED nonEmbVars

\* initModel after is_model_loaded: ready at once, or invoke
\* init_embedding_model
InitModelChecked ==
  /\ initCall.pc = "check_ok"
  /\ IF initCall.loaded
       THEN /\ modelStatus' = "ready"
            /\ initCall' = [pc |-> "done", loaded |-> FALSE]
       ELSE /\ initCall' = [pc |-> "init_invoked", loaded |-> FALSE]
            /\ UNCHANGED modelStatus
  /\ UNCHANGED <<embError, searchResults, isSearching, retries, searches,
                 beModelLoaded, nRetries>>
  /\ UNCHANGED nonEmbVars

\* init_embedding_model for the mount-time call: loads the model, or rejects
BackendInitModel ==
  /\ initCall.pc = "init_invoked"
  /\ \/ /\ initCall' = [initCall EXCEPT !.pc = "init_ok"]
        /\ beModelLoaded' = TRUE
     \/ /\ initCall' = [initCall EXCEPT !.pc = "init_err"]
        /\ UNCHANGED beModelLoaded
  /\ UNCHANGED <<modelStatus, embError, searchResults, isSearching, retries, searches,
                 nRetries>>
  /\ UNCHANGED nonEmbVars

InitModelOk ==
  /\ initCall.pc = "init_ok"
  /\ modelStatus' = "ready"
  /\ initCall' = [initCall EXCEPT !.pc = "done"]
  /\ UNCHANGED <<embError, searchResults, isSearching, retries, searches,
                 beModelLoaded, nRetries>>
  /\ UNCHANGED nonEmbVars

\* initModel's catch, reached from either await
InitModelErr ==
  /\ initCall.pc \in {"check_err", "init_err"}
  /\ embError' = "load failed"
  /\ modelStatus' = "error"
  /\ initCall' = [initCall EXCEPT !.pc = "done"]
  /\ UNCHANGED <<searchResults, isSearching, retries, searches, beModelLoaded, nRetries>>
  /\ UNCHANGED nonEmbVars

\* retryInit up to the await: callable whenever the hook is mounted
RetryInit ==
  /\ EmbMounted
  /\ nRetries < MaxRetries
  /\ modelStatus' = "loading"
  /\ embError' = null
  /\ retries' = retries \cup {[id |-> nRetries + 1, pc |-> "invoked"]}
  /\ nRetries' = nRetries + 1
  /\ UNCHANGED <<searchResults, isSearching, initCall, searches, beModelLoaded>>
  /\ UNCHANGED nonEmbVars

\* init_embedding_model for a retryInit call
BackendInitModelRetry(r) ==
  /\ r \in retries
  /\ r.pc = "invoked"
  /\ \/ /\ retries' = (retries \ {r}) \cup {[r EXCEPT !.pc = "ok"]}
        /\ beModelLoaded' = TRUE
     \/ /\ retries' = (retries \ {r}) \cup {[r EXCEPT !.pc = "err"]}
        /\ UNCHANGED beModelLoaded
  /\ UNCHANGED <<modelStatus, embError, searchResults, isSearching, initCall, searches,
                 nRetries>>
  /\ UNCHANGED nonEmbVars

RetryOk(r) ==
  /\ r \in retries
  /\ r.pc = "ok"
  /\ modelStatus' = "ready"
  /\ retries' = retries \ {r}
  /\ UNCHANGED <<embError, searchResults, isSearching, initCall, searches,
                 beModelLoaded, nRetries>>
  /\ UNCHANGED nonEmbVars

\* retryInit's catch without its setError
RetryErr_NoSetError(r) ==
  /\ r \in retries
  /\ r.pc = "err"
  /\ modelStatus' = "error"
  /\ retries' = retries \ {r}
  /\ UNCHANGED <<embError, searchResults, isSearching, initCall, searches,
                 beModelLoaded, nRetries>>
  /\ UNCHANGED nonEmbVars

\* retryInit's catch
RetryErr(r) ==
  /\ r \in retries
  /\ r.pc = "err"
  /\ embError' = "load failed"
  /\ modelStatus' = "error"
  /\ retries' = retries \ {r}
  /\ UNCHANGED <<searchResults, isSearching, initCall, searches, beModelLoaded, nRetries>>
  /\ UNCHANGED nonEmbVars

\* search(query, topK) up to the await. A call is recorded with the
\* modelStatus (at) and the indexStatus (idx) of the state it was made in
\* and with what it returned to its caller (ret): "empty" is a resolved [],
\* "results" the backend's rows.
Search(q, k) ==
  /\ EmbMounted
  /\ Len(searches) < MaxSearches
  /\ IF modelStatus # "ready"
       THEN /\ searches' = Append(searches, [at |-> modelStatus, idx |-> indexStatus, pc |-> "done", ret |-> "empty"])
            /\ UNCHANGED <<searchResults, isSearching>>
       ELSE IF Trim(q) = <<>>
         THEN /\ searchResults' = <<>>
              /\ searches' = Append(searches, [at |-> modelStatus, idx |-> indexStatus, pc |-> "done", ret |-> "empty"])
              /\ UNCHANGED isSearching
         ELSE /\ isSearching' = TRUE
              /\ searches' = Append(searches, [at |-> modelStatus, idx |-> indexStatus, pc |-> "invoked", ret |-> "pending"])
              /\ UNCHANGED searchResults
  /\ UNCHANGED <<modelStatus, embError, initCall, retries, beModelLoaded, nRetries>>
  /\ UNCHANGED nonEmbVars

\* search_documents resolves or rejects
BackendSearch(i) ==
  /\ i \in 1..Len(searches)
  /\ searches[i].pc = "invoked"
  /\ \/ searches' = [searches EXCEPT ![i].pc = "ok"]
     \/ searches' = [searches EXCEPT ![i].pc = "err"]
  /\ UNCHANGED <<modelStatus, embError, searchResults, isSearching, initCall, retries,
                 beModelLoaded, nRetries>>
  /\ UNCHANGED nonEmbVars

\* the rows search_documents returned for call i
ResultsOf(i) == <<i>>

\* search after the await: setSearchResults, return results; finally
SearchOk(i) ==
  /\ i \in 1..Len(searches)
  /\ searches[i].pc = "ok"
  /\ searchResults' = ResultsOf(i)
  /\ isSearching' = FALSE
  /\ searches' = [searches EXCEPT ![i].pc = "done", ![i].ret = "results"]
  /\ UNCHANGED <<modelStatus, embError, initCall, retries, beModelLoaded, nRetries>>
  /\ UNCHANGED nonEmbVars

\* search's catch: return []; finally
SearchErr(i) ==
  /\ i \in 1..Len(searches)
  /\ searches[i].pc = "err"
  /\ isSearching' = FALSE
  /\ searches' = [searches EXCEPT ![i].pc = "done", ![i].ret = "empty"]
  /\ UNCHANGED <<modelStatus, embError, searchResults, initCall, retries,
                 beModelLoaded, nRetries>>
  /\ UNCHANGED nonEmbVars

\* init_embedding_model commands sent whose answer has not been consumed
InitCommandsInFlight ==
  Cardinality(retries)
    + (IF initCall.pc \in {"init_invoked", "init_ok", "init_err"} THEN 1 ELSE 0)


(* ============================== useChat =============================== *)
TitleLen == 30

\* a text one character longer than a title
LongContent == [i \in 1..(TitleLen + 1) |-> "a"]

\* message texts, as sequences of characters
Contents == {<<" ">>, <<" ", "a", " ">>, LongContent}

\* the title the backend gives a chat it creates
DefaultTitle == <<"N", "e", "w">>

Min(a, b) == IF a < b THEN a ELSE b

\* content.slice(0, 30) + (content.length > 30 ? '...' : '')
TitleOf(content) ==
  SubSeq(content, 1, Min(TitleLen, Len(content)))
    \o (IF Len(content) > TitleLen THEN <<".", ".", ".">> ELSE <<>>)

\* JSON.parse(JSON.stringify(mockSources)): the two mock sources
MockSources == <<"d1", "d2">>
NoMessage == [id |-> 0, role |-> "none", sources |-> <<>>]

\* convertBackendChatListItem: a list item carries no messages
ListItem(bc) == [id |-> bc.id, title |-> bc.title, messages |-> <<>>]

RECURSIVE MapListItem(_)
MapListItem(bcs) ==
  IF bcs = <<>> THEN <<>> ELSE <<ListItem(Head(bcs))>> \o MapListItem(Tail(bcs))

ChatIds(cs) == {cs[i].id : i \in 1..Len(cs)}

\* prev.map(chat => chat.id === id ? {...chat, messages: [...chat.messages, m]} : chat)
AppendMessage(cs, id, m) ==
  [i \in 1..Len(cs) |->
     IF cs[i].id = id THEN [cs[i] EXCEPT !.messages = Append(@, m)] ELSE cs[i]]

\* prev.map(chat => chat.id === id ? {...chat, title} : chat)
SetTitle(cs, id, t) ==
  [i \in 1..Len(cs) |-> IF cs[i].id = id THEN [cs[i] EXCEPT !.title = t] ELSE cs[i]]

\* chats.find((c) => c.id === chatId)?.messages.length === 0
HasNoMessages(cs, id) == \E i \in 1..Len(cs) : cs[i].id = id /\ cs[i].messages = <<>>

\* a chat stored by an earlier session: its title and its two messages
OldTitle == <<"O", "l", "d">>
OldMessages ==
  <<[id |-> 1, role |-> "user", sources |-> <<>>],
    [id |-> 2, role |-> "assistant", sources |-> MockSources]>>

InitBeChats ==
  {<<>>, <<[id |-> 1, title |-> DefaultTitle, messages |-> <<>>]>>,
   <<[id |-> 1, title |-> OldTitle, messages |-> OldMessages]>>}

ChatInit ==
  /\ chats = <<>>
  /\ activeChatId = NoChat
  /\ isLoading = FALSE
  /\ chatInitializing = TRUE
  /\ chatError = null
  /\ loadChats = [pc |-> "start", snap |-> <<>>]
  /\ creates = {}
  /\ sends = {}
  /\ loads = {}
  /\ beChats \in InitBeChats
  /\ beMsgCount = (IF beChats = <<>> THEN 0 ELSE Len(beChats[1].messages))
  /\ beChatCount = Len(beChats)
  /\ nCreates = 0
  /\ nSends = 0
  /\ chatDeletes = {}
  /\ nChatDeletes = 0

\* the mount effect has run: the UI's handlers are called only after it
ChatMounted == loadChats.pc # "start"

\* the id create_chat gives the next chat: one never given before
NextChatId == beChatCount + 1

\* chats.find((c) => c.id === id)?.messages of the list cs
MessagesOf(cs, id) ==
  IF \E i \in 1..Len(cs) : cs[i].id = id
    THEN (CHOOSE c \in Range(cs) : c.id = id).messages
    ELSE <<>>

\* useEffect(loadActiveChat, [activeChatId, chats]) up to the await, run
\* after a render with the list cs and the active chat aid: get_chat is
\* invoked unless no chat is active or its messages are loaded. ls are the
\* get_chat calls in flight; calls that agree on the chat, the position and
\* the answer are kept once.
LoadActiveChatEffect(cs, aid, ls) ==
  IF aid = NoChat \/ MessagesOf(cs, aid) # <<>>
    THEN ls
    ELSE ls \cup {[chat |-> aid, pc |-> "invoked", title |-> <<>>, messages |-> <<>>]}

\* get_chat resolves with the stored chat and its messages, or rejects
BackendGetChat(l) ==
  /\ l \in loads
  /\ l.pc = "invoked"
  /\ \/ \E i \in 1..Len(beChats) :
          /\ beChats[i].id = l.chat
          /\ loads' = (loads \ {l}) \cup
               {[l EXCEPT !.pc = "ok", !.title = beChats[i].title,
                          !.messages = beChats[i].messages]}
     \/ loads' = (loads \ {l}) \cup {[l EXCEPT !.pc = "err"]}
  /\ UNCHANGED <<chats, activeChatId, isLoading, chatInitializing, chatError, loadChats,
                 creates, sends, beChats, beMsgCount, nCreates, nSends, timers>>
  /\ UNCHANGED <<chatDeletes, nChatDeletes, beChatCount>>
  /\ UNCHANGED nonChatVars

\* prev.map((c) => (c.id === id ? fullChat : c))
ReplaceChat(cs, id, full) == [i \in 1..Len(cs) |-> IF cs[i].id = id THEN full ELSE cs[i]]

\* loadActiveChat after the await: the chat is replaced by
\* convertBackendChat(backendChat); the new list is rendered, so the effect
\* runs again
LoadActiveChatOk(l) ==
  /\ l \in loads
  /\ l.pc = "ok"
  /\ chats' = ReplaceChat(chats, l.chat,
                          [id |-> l.chat, title |-> l.title, messages |-> l.messages])
  /\ loads' = LoadActiveChatEffect(chats', activeChatId, loads \ {l})
  /\ Cardinality(loads') <= MaxLoads
  /\ UNCHANGED <<activeChatId, isLoading, chatInitializing, chatError, loadChats,
                 creates, sends, beChats, beMsgCount, nCreates, nSends, timers>>
  /\ UNCHANGED <<chatDeletes, nChatDeletes, beChatCount>>
  /\ UNCHANGED nonChatVars

\* loadActiveChat's catch: console.error only
LoadActiveChatErr(l) ==
  /\ l \in loads
  /\ l.pc = "err"
  /\ loads' = loads \ {l}
  /\ UNCHANGED <<chats, activeChatId, isLoading, chatInitializing, chatError, loadChats,
                 creates, sends, beChats, beMsgCount, nCreates, nSends, timers>>
  /\ UNCHANGED <<chatDeletes, nChatDeletes, beChatCount>>
  /\ UNCHANGED nonChatVars

\* useEffect(loadChats, []) up to the await
LoadChatsStart ==
  /\ loadChats.pc = "start"
  /\ chatInitializing' = TRUE
  /\ chatError' = null
  /\ loadChats' = [loadChats EXCEPT !.pc = "invoked"]
  /\ UNCHANGED <<loads, chats, activeChatId, isLoading, creates, sends, beChats, beMsgCount,
                 nCreates, nSends, timers>>
  /\ UNCHANGED <<chatDeletes, nChatDeletes, beChatCount>>
  /\ UNCHANGED nonChatVars

\* get_all_chats resolves with the stored chats, most recent first, or rejects
BackendGetAllChats ==
  /\ loadChats.pc = "invoked"
  /\ \/ loadChats' = [pc |-> "ok", snap |-> MapListItem(beChats)]
     \/ loadChats' = [pc |-> "err", snap |-> <<>>]
  /\ UNCHANGED <<loads, chats, activeChatId, isLoading, chatInitializing, chatError, creates,
                 sends, beChats, beMsgCount, nCreates, nSends, timers>>
  /\ UNCHANGED <<chatDeletes, nChatDeletes, beChatCount>>
  /\ UNCHANGED nonChatVars

\* loadChats after the await: setChats, select the first chat; finally
LoadChatsOk ==
  /\ loadChats.pc = "ok"
  /\ chats' = loadChats.snap
  /\ activeChatId' = IF Len(loadChats.snap) > 0 THEN loadChats.snap[1].id ELSE activeChatId
  /\ chatInitializing' = FALSE
  /\ loadChats' = [pc |-> "done", snap |-> <<>>]
  /\ UNCHANGED <<isLoading, chatError, creates, sends, beChats, beMsgCount,
                 nCreates, nSends, timers>>
  /\ loads' = LoadActiveChatEffect(chats', activeChatId', loads)
  /\ Cardinality(loads') <= MaxLoads
  /\ UNCHANGED <<chatDeletes, nChatDeletes, beChatCount>>
  /\ UNCHANGED nonChatVars

\* loadChats' catch; finally
LoadChatsErr ==
  /\ loadChats.pc = "err"
  /\ chatError' = "load failed"
  /\ chatInitializing' = FALSE
  /\ loadChats' = [pc |-> "done", snap |-> <<>>]
  /\ UNCHANGED <<loads, chats, activeChatId, isLoading, creates, sends, beChats, beMsgCount,
                 nCreates, nSends, timers>>
  /\ UNCHANGED <<chatDeletes, nChatDeletes, beChatCount>>
  /\ UNCHANGED nonChatVars

\* a click on a chat of ChatHistory: onSelectChat = setActiveChatId
SelectChat(id) ==
  /\ ChatMounted
  /\ id \in ChatIds(chats)
  /\ id # activeChatId
  /\ activeChatId' = id
  /\ UNCHANGED <<chats, isLoading, chatInitializing, chatError, loadChats, creates,
                 sends, beChats, beMsgCount, nCreates, nSends, timers>>
  /\ loads' = LoadActiveChatEffect(chats', activeChatId', loads)
  /\ Cardinality(loads') <= MaxLoads
  /\ UNCHANGED <<chatDeletes, nChatDeletes, beChatCount>>
  /\ UNCHANGED nonChatVars

\* the New Chat button: createChat up to the await
CreateChat ==
  /\ ChatMounted
  /\ nCreates < MaxCreates
  /\ chatError' = null
  /\ creates' = creates \cup {[id |-> nCreates + 1, pc |-> "invoked", newChat |-> 0]}
  /\ nCreates' = nCreates + 1
  /\ UNCHANGED <<loads, chats, activeChatId, isLoading, chatInitializing, loadChats, sends,
                 beChats, beMsgCount, nSends, timers>>
  /\ UNCHANGED <<chatDeletes, nChatDeletes, beChatCount>>
  /\ UNCHANGED nonChatVars

\* create_chat stores a new chat without messages (most recent first) and
\* resolves with it, or rejects
BackendCreateChat(c) ==
  /\ c \in creates
  /\ c.pc = "invoked"
  /\ \/ /\ NextChatId <= MaxChats
        /\ creates' = (creates \ {c}) \cup {[c EXCEPT !.pc = "ok", !.newChat = NextChatId]}
        /\ beChats' = <<[id |-> NextChatId, title |-> DefaultTitle, messages |-> <<>>]>>
                        \o beChats
        /\ beChatCount' = beChatCount + 1
     \/ /\ creates' = (creates \ {c}) \cup {[c EXCEPT !.pc = "err"]}
        /\ UNCHANGED <<beChats, beChatCount>>
  /\ UNCHANGED <<loads, chats, activeChatId, isLoading, chatInitializing, chatError, loadChats,
                 sends, beMsgCount, nCreates, nSends, timers>>
  /\ UNCHANGED <<chatDeletes, nChatDeletes>>
  /\ UNCHANGED nonChatVars

\* createChat after the await: prepend the chat and make it active
CreateChatOk(c) ==
  /\ c \in creates
  /\ c.pc = "ok"
  /\ chats' = <<[id |-> c.newChat, title |-> DefaultTitle, messages |-> <<>>]>> \o chats
  /\ activeChatId' = c.newChat
  /\ creates' = creates \ {c}
  /\ UNCHANGED <<isLoading, chatInitializing, chatError, loadChats, sends, beChats,
                 beMsgCount, nCreates, nSends, timers>>
  /\ loads' = LoadActiveChatEffect(chats', activeChatId', loads)
  /\ Cardinality(loads') <= MaxLoads
  /\ UNCHANGED <<chatDeletes, nChatDeletes, beChatCount>>
  /\ UNCHANGED nonChatVars

\* createChat's catch
CreateChatErr(c) ==
  /\ c \in creates
  /\ c.pc = "err"
  /\ chatError' = "create failed"
  /\ creates' = creates \ {c}
  /\ UNCHANGED <<loads, chats, activeChatId, isLoading, chatInitializing, loadChats, sends,
                 beChats, beMsgCount, nCreates, nSends, timers>>
  /\ UNCHANGED <<chatDeletes, nChatDeletes, beChatCount>>
  /\ UNCHANGED nonChatVars

(* ----------------------------- deleteChat ---------------------------- *)
\* prev.filter((c) => c.id !== chatId)
RECURSIVE WithoutChat(_, _)
WithoutChat(cs, id) ==
  IF cs = <<>> THEN <<>>
  ELSE IF Head(cs).id = id THEN WithoutChat(Tail(cs), id)
       ELSE <<Head(cs)>> \o WithoutChat(Tail(cs), id)

\* the delete button of a chat of ChatHistory: deleteChat up to the await.
\* The call keeps the list and the active chat it started from
DeleteChat(id) ==
  /\ ChatMounted
  /\ id \in ChatIds(chats)
  /\ nChatDeletes < MaxChatDeletes
  /\ chatError' = null
  /\ chats' = WithoutChat(chats, id)
  /\ activeChatId' = IF activeChatId = id THEN NoChat ELSE activeChatId
  /\ chatDeletes' = chatDeletes \cup
       {[id |-> nChatDeletes + 1, chat |-> id, pc |-> "invoked", snap |-> <<>>,
         before |-> chats, beforeActive |-> activeChatId]}
  /\ nChatDeletes' = nChatDeletes + 1
  /\ loads' = LoadActiveChatEffect(chats', activeChatId', loads)
  /\ Cardinality(loads') <= MaxLoads
  /\ UNCHANGED <<isLoading, chatInitializing, loadChats, creates, sends, beChats,
                 beMsgCount, beChatCount, nCreates, nSends, timers>>
  /\ UNCHANGED nonChatVars

\* delete_chat removes the stored chat and resolves, or rejects
BackendDeleteChat(c) ==
  /\ c \in chatDeletes
  /\ c.pc = "invoked"
  /\ \/ /\ chatDeletes' = (chatDeletes \ {c}) \cup {[c EXCEPT !.pc = "ok"]}
        /\ beChats' = WithoutChat(beChats, c.chat)
     \/ /\ chatDeletes' = (chatDeletes \ {c}) \cup {[c EXCEPT !.pc = "err"]}
        /\ UNCHANGED beChats
  /\ UNCHANGED <<loads, chats, activeChatId, isLoading, chatInitializing, chatError, loadChats,
                 creates, sends, beMsgCount, beChatCount, nCreates, nSends, nChatDeletes,
                 timers>>
  /\ UNCHANGED nonChatVars

\* deleteChat after the await: nothing more to do
DeleteChatOk(c) ==
  /\ c \in chatDeletes
  /\ c.pc = "ok"
  /\ chatDeletes' = chatDeletes \ {c}
  /\ UNCHANGED <<loads, chats, activeChatId, isLoading, chatInitializing, chatError, loadChats,
                 creates, sends, beChats, beMsgCount, beChatCount, nCreates, nSends,
                 nChatDeletes, timers>>
  /\ UNCHANGED nonChatVars

\* deleteChat's catch up to its await: setError, then get_all_chats
DeleteChatErr(c) ==
  /\ c \in chatDeletes
  /\ c.pc = "err"
  /\ chatError' = "delete failed"
  /\ chatDeletes' = (chatDeletes \ {c}) \cup {[c EXCEPT !.pc = "reload_invoked"]}
  /\ UNCHANGED <<loads, chats, activeChatId, isLoading, chatInitializing, loadChats,
                 creates, sends, beChats, beMsgCount, beChatCount, nCreates, nSends,
                 nChatDeletes, timers>>
  /\ UNCHANGED nonChatVars

\* get_all_chats for the catch of deleteChat
BackendReloadChats(c) ==
  /\ c \in chatDeletes
  /\ c.pc = "reload_invoked"
  /\ \/ chatDeletes' = (chatDeletes \ {c}) \cup
          {[c EXCEPT !.pc = "reload_ok", !.snap = MapListItem(beChats)]}
     \/ chatDeletes' = (chatDeletes \ {c}) \cup {[c EXCEPT !.pc = "reload_err"]}
  /\ UNCHANGED <<loads, chats, activeChatId, isLoading, chatInitializing, chatError, loadChats,
                 creates, sends, beChats, beMsgCount, beChatCount, nCreates, nSends,
                 nChatDeletes, timers>>
  /\ UNCHANGED nonChatVars

\* the catch after its await: setChats(backendChats.map(convertBackendChatListItem))
ReloadChatsOk(c) ==
  /\ c \in chatDeletes
  /\ c.pc = "reload_ok"
  /\ chats' = c.snap
  /\ chatDeletes' = chatDeletes \ {c}
  /\ loads' = LoadActiveChatEffect(chats', activeChatId, loads)
  /\ Cardinality(loads') <= MaxLoads
  /\ UNCHANGED <<activeChatId, isLoading, chatInitializing, chatError, loadChats,
                 creates, sends, beChats, beMsgCount, beChatCount, nCreates, nSends,
                 nChatDeletes, timers>>
  /\ UNCHANGED nonChatVars

\* get_all_chats rejected inside the catch: deleteChat's promise rejects
ReloadChatsErr(c) ==
  /\ c \in chatDeletes
  /\ c.pc = "reload_err"
  /\ chatDeletes' = chatDeletes \ {c}
  /\ UNCHANGED <<loads, chats, activeChatId, isLoading, chatInitializing, chatError, loadChats,
                 creates, sends, beChats, beMsgCount, beChatCount, nCreates, nSends,
                 nChatDeletes, timers>>
  /\ UNCHANGED nonChatVars

(* ------------------- ChatInput and sendMessage ----------------------- *)
\* MainLayout: ChatInput is rendered once the chats are loaded, with
\* disabled = (indexStatus === 'indexing') and isLoading = isLoading
ChatInputRendered == ~chatInitializing

\* ChatInput that is never disabled
ChatInputDisabled_Never == FALSE
ChatInputDisabled == indexStatus = "indexing"

\* ChatInput.handleSend's condition without its isLoading test
CanSend_NoLoadingTest(m) == Trim(m) # <<>> /\ ~ChatInputDisabled

\* ChatInput.handleSend: message.trim() && !disabled && !isLoading
CanSend(m) == Trim(m) # <<>> /\ ~ChatInputDisabled /\ ~isLoading

\* a sendMessage call in flight: chatId is the chat it writes to (NoChat
\* until create_chat has answered), empty whether the chats it closed over
\* hold that chat without messages, res the answer of its last command,
\* userMessage the id of the user message it stored
SendCall(id, pc, chatId, isNew, empty, content) ==
  [id |-> id, pc |-> pc, chatId |-> chatId, isNew |-> isNew, empty |-> empty,
   content |-> content, newChat |-> 0, res |-> NoMessage, userMessage |-> 0]

\* handleSend with text m typed: onSend(message.trim()), that is
\* sendMessage up to its first await
HandleSend(m) ==
  /\ ChatInputRendered
  /\ CanSend(m)
  /\ nSends < MaxSends
  /\ chatError' = null
  /\ isLoading' = TRUE
  /\ nSends' = nSends + 1
  /\ IF activeChatId = NoChat
       THEN sends' = sends \cup
              {SendCall(nSends + 1, "create_invoked", NoChat, FALSE, FALSE, Trim(m))}
       ELSE sends' = sends \cup
              {SendCall(nSends + 1, "user_invoked", activeChatId, FALSE,
                        HasNoMessages(chats, activeChatId), Trim(m))}
  /\ UNCHANGED <<loads, chats, activeChatId, chatInitializing, loadChats, creates, beChats,
                 beMsgCount, nCreates, timers>>
  /\ UNCHANGED <<chatDeletes, nChatDeletes, beChatCount>>
  /\ UNCHANGED nonChatVars

\* create_chat for sendMessage's auto-create
BackendCreateChatForSend(c) ==
  /\ c \in sends
  /\ c.pc = "create_invoked"
  /\ \/ /\ NextChatId <= MaxChats
        /\ sends' = (sends \ {c}) \cup {[c EXCEPT !.pc = "create_ok", !.newChat = NextChatId]}
        /\ beChats' = <<[id |-> NextChatId, title |-> DefaultTitle, messages |-> <<>>]>>
                        \o beChats
        /\ beChatCount' = beChatCount + 1
     \/ /\ sends' = (sends \ {c}) \cup {[c EXCEPT !.pc = "err"]}
        /\ UNCHANGED <<beChats, beChatCount>>
  /\ UNCHANGED <<loads, chats, activeChatId, isLoading, chatInitializing, chatError, loadChats,
                 creates, beMsgCount, nCreates, nSends, timers>>
  /\ UNCHANGED <<chatDeletes, nChatDeletes>>
  /\ UNCHANGED nonChatVars

\* sendMessage after create_chat: prepend the chat, make it active, then
\* invoke add_message for the user message
SendChatCreated(c) ==
  /\ c \in sends
  /\ c.pc = "create_ok"
  /\ chats' = <<[id |-> c.newChat, title |-> DefaultTitle, messages |-> <<>>]>> \o chats
  /\ activeChatId' = c.newChat
  /\ sends' = (sends \ {c}) \cup
       {[c EXCEPT !.pc = "user_invoked", !.chatId = c.newChat, !.isNew = TRUE]}
  /\ UNCHANGED <<isLoading, chatInitializing, chatError, loadChats, creates, beChats,
                 beMsgCount, nCreates, nSends, timers>>
  /\ loads' = LoadActiveChatEffect(chats', activeChatId', loads)
  /\ Cardinality(loads') <= MaxLoads
  /\ UNCHANGED <<chatDeletes, nChatDeletes, beChatCount>>
  /\ UNCHANGED nonChatVars

\* the backend's chats with message m appended to chat id
BeAppend(id, m) ==
  [i \in 1..Len(beChats) |->
     IF beChats[i].id = id THEN [beChats[i] EXCEPT !.messages = Append(@, m)]
     ELSE beChats[i]]

\* add_message stores the message under a fresh id and resolves with it,
\* or rejects (always when the chat is not stored)
BackendAddMessage(c) ==
  /\ c \in sends
  /\ c.pc \in {"user_invoked", "asst_invoked"}
  /\ LET m == [id |-> beMsgCount + 1,
               role |-> IF c.pc = "user_invoked" THEN "user" ELSE "assistant",
               sources |-> IF c.pc = "user_invoked" THEN <<>> ELSE MockSources]
         ok == IF c.pc = "user_invoked" THEN "user_ok" ELSE "asst_ok"
     IN \/ /\ c.chatId \in ChatIds(beChats)
           /\ sends' = (sends \ {c}) \cup {[c EXCEPT !.pc = ok, !.res = m]}
           /\ beChats' = BeAppend(c.chatId, m)
           /\ beMsgCount' = beMsgCount + 1
        \/ /\ sends' = (sends \ {c}) \cup {[c EXCEPT !.pc = "err"]}
           /\ UNCHANGED <<beChats, beMsgCount>>
  /\ UNCHANGED <<loads, chats, activeChatId, isLoading, chatInitializing, chatError, loadChats,
                 creates, nCreates, nSends, timers>>
  /\ UNCHANGED <<chatDeletes, nChatDeletes, beChatCount>>
  /\ UNCHANGED nonChatVars

\* sendMessage after the user message's add_message: append it locally,
\* then update the title of a first message, or start the 1000 ms wait
SendUserAdded(c) ==
  /\ c \in sends
  /\ c.pc = "user_ok"
  /\ chats' = AppendMessage(chats, c.chatId, c.res)
  /\ IF c.isNew \/ c.empty
       THEN /\ sends' = (sends \ {c}) \cup
                 {[c EXCEPT !.pc = "title_invoked", !.res = NoMessage,
                            !.userMessage = c.res.id]}
            /\ UNCHANGED timers
       ELSE /\ sends' = (sends \ {c}) \cup
                 {[c EXCEPT !.pc = "thinking", !.res = NoMessage,
                            !.userMessage = c.res.id]}
            /\ timers' = SetTimeout(timers, "send", c.id, ThinkingTicks)
  /\ UNCHANGED <<activeChatId, isLoading, chatInitializing, chatError, loadChats, creates,
                 beChats, beMsgCount, nCreates, nSends>>
  /\ loads' = LoadActiveChatEffect(chats', activeChatId', loads)
  /\ Cardinality(loads') <= MaxLoads
  /\ UNCHANGED <<chatDeletes, nChatDeletes, beChatCount>>
  /\ UNCHANGED nonChatVars

\* update_chat_title stores the title, or rejects
BackendUpdateTitle(c) ==
  /\ c \in sends
  /\ c.pc = "title_invoked"
  /\ \/ /\ sends' = (sends \ {c}) \cup {[c EXCEPT !.pc = "title_ok"]}
        /\ beChats' = SetTitle(beChats, c.chatId, TitleOf(c.content))
     \/ /\ sends' = (sends \ {c}) \cup {[c EXCEPT !.pc = "err"]}
        /\ UNCHANGED beChats
  /\ UNCHANGED <<loads, chats, activeChatId, isLoading, chatInitializing, chatError, loadChats,
                 creates, beMsgCount, nCreates, nSends, timers>>
  /\ UNCHANGED <<chatDeletes, nChatDeletes, beChatCount>>
  /\ UNCHANGED nonChatVars

\* sendMessage after update_chat_title: set the title locally, then wait
SendTitleUpdated(c) ==
  /\ c \in sends
  /\ c.pc = "title_ok"
  /\ chats' = SetTitle(chats, c.chatId, TitleOf(c.content))
  /\ sends' = (sends \ {c}) \cup {[c EXCEPT !.pc = "thinking"]}
  /\ timers' = SetTimeout(timers, "send", c.id, ThinkingTicks)
  /\ UNCHANGED <<activeChatId, isLoading, chatInitializing, chatError, loadChats, creates,
                 beChats, beMsgCount, nCreates, nSends>>
  /\ loads' = LoadActiveChatEffect(chats', activeChatId', loads)
  /\ Cardinality(loads') <= MaxLoads
  /\ UNCHANGED <<chatDeletes, nChatDeletes, beChatCount>>
  /\ UNCHANGED nonChatVars

\* the 1000 ms wait is over: invoke add_message for the assistant message
SendTimerFire(i) ==
  /\ i \in 1..Len(timers)
  /\ timers[i].kind = "send"
  /\ timers[i].rem = 0
  /\ \E c \in sends :
       /\ c.id = timers[i].ref
       /\ sends' = (sends \ {c}) \cup {[c EXCEPT !.pc = "asst_invoked"]}
  /\ timers' = RemoveAt(timers, i)
  /\ UNCHANGED <<loads, chats, activeChatId, isLoading, chatInitializing, chatError, loadChats,
                 creates, beChats, beMsgCount, nCreates, nSends>>
  /\ UNCHANGED <<chatDeletes, nChatDeletes, beChatCount>>
  /\ UNCHANGED nonChatVars

\* sendMessage after the assistant message's add_message; finally
SendAssistantAdded(c) ==
  /\ c \in sends
  /\ c.pc = "asst_ok"
  /\ chats' = AppendMessage(chats, c.chatId, c.res)
  /\ isLoading' = FALSE
  /\ sends' = sends \ {c}
  /\ UNCHANGED <<activeChatId, chatInitializing, chatError, loadChats, creates,
                 beChats, beMsgCount, nCreates, nSends, timers>>
  /\ loads' = LoadActiveChatEffect(chats', activeChatId', loads)
  /\ Cardinality(loads') <= MaxLoads
  /\ UNCHANGED <<chatDeletes, nChatDeletes, beChatCount>>
  /\ UNCHANGED nonChatVars

\* sendMessage's catch; finally
SendErr(c) ==
  /\ c \in sends
  /\ c.pc = "err"
  /\ chatError' = "send failed"
  /\ isLoading' = FALSE
  /\ sends' = sends \ {c}
  /\ UNCHANGED <<loads, chats, activeChatId, chatInitializing, loadChats, creates,
                 beChats, beMsgCount, nCreates, nSends, timers>>
  /\ UNCHANGED <<chatDeletes, nChatDeletes, beChatCount>>
  /\ UNCHANGED nonChatVars

\* the sendMessage calls in flight that write to chat id
SendsInFlight(id) == {c \in sends : c.chatId = id}

(* ============================ useSettings ============================= *)
\* temperature is counted in tenths (0.7 is 7)
defaultSettings ==
  [temperature |-> 7, maxTokens |-> 2048, chunkSize |-> 512, topK |-> 5,
   theme |-> "system"]

\* values a caller passes for each field: Partial<Settings> takes any number
\* the fields of Settings typed number
NumericFields == {"temperature", "maxTokens", "chunkSize", "topK"}

\* values of a number field that are no finite number: the number NaN, the
\* value undefined (Partial<Settings> admits it) and JSON's null
NaN == -1
Undefined == -2
JsonNull == -3

TemperatureValues == {0, 7, 10, 11, NaN}
MaxTokensValues == {256, 2048, 8193}
ChunkSizeValues == {127, 512}
TopKValues == {0, 5, 20, Undefined}
Themes == {"system", "dark"}

NoFields == [f \in {} |-> 0]

\* the object spread {...a, ...b}
Spread(a, b) ==
  [f \in DOMAIN a \cup DOMAIN b |-> IF f \in DOMAIN b THEN b[f] ELSE a[f]]

\* the updates argument of updateSettings
Updates ==
  {NoFields}
    \cup {[f \in {"temperature"} |-> v] : v \in TemperatureValues}
    \cup {[f \in {"maxTokens"} |-> v] : v \in MaxTokensValues}
    \cup {[f \in {"chunkSize"} |-> v] : v \in ChunkSizeValues}
    \cup {[f \in {"topK"} |-> v] : v \in TopKValues}
    \cup {[f \in {"theme"} |-> v] : v \in Themes}

\* JSON.stringify of a settings object, as the object JSON.parse reads back
\* from the text: a field holding undefined is left out, NaN is written as
\* null, every other value is written as it is
Stringify(o) ==
  [kind |-> "json",
   value |-> [f \in {g \in DOMAIN o : ~(g \in NumericFields /\ o[g] = Undefined)} |->
                IF f \in NumericFields /\ o[f] = NaN THEN JsonNull ELSE o[f]]]

\* what localStorage.getItem(STORAGE_KEY) gives at start: nothing, a text
\* that is not JSON, or the JSON text of an object an earlier run stored
StoredAtStart ==
  {[kind |-> "absent", value |-> NoFields], [kind |-> "invalid", value |-> NoFields],
   Stringify(NoFields), Stringify(defaultSettings),
   Stringify(Spread(defaultSettings, [f \in {"topK"} |-> 21]))}

\* the initialiser of useState: defaults when nothing is stored or
\* JSON.parse throws, else {...defaultSettings, ...JSON.parse(stored)}
InitialSettings(stored) ==
  IF stored.kind = "json" THEN Spread(defaultSettings, stored.value) ELSE defaultSettings

SettingsInit ==
  /\ storage \in StoredAtStart
  /\ settings = InitialSettings(storage)
  /\ settingsPersisted = FALSE
  /\ settingsOp = "none"

\* useEffect(() => localStorage.setItem(...), [settings]) after the mount
PersistSettings ==
  /\ ~settingsPersisted
  /\ storage' = Stringify(settings)
  /\ settingsPersisted' = TRUE
  /\ UNCHANGED <<settings, settingsOp>>
  /\ UNCHANGED nonSetVars

\* updateSettings(u), and the persistence effect of the render it causes
UpdateSettings(u) ==
  /\ settingsPersisted
  /\ settings' = Spread(settings, u)
  /\ storage' = Stringify(settings')
  /\ settingsOp' = "update"
  /\ UNCHANGED settingsPersisted
  /\ UNCHANGED nonSetVars

\* resetSettings(), and the persistence effect
ResetSettings ==
  /\ settingsPersisted
  /\ settings' = defaultSettings
  /\ storage' = Stringify(settings')
  /\ settingsOp' = "reset"
  /\ UNCHANGED settingsPersisted
  /\ UNCHANGED nonSetVars

(* ========================== specifications =========================== *)
Init == DocsInit /\ timers = <<>> /\ EmbInit /\ ChatInit /\ SettingsInit

DocsNext ==
  \/ LoadDocumentsStart
  \/ BackendGetAllDocuments
  \/ LoadDocumentsOk
  \/ LoadDocumentsErr
  \/ UploadClick
  \/ DialogCancel
  \/ DialogSelect
  \/ BackendUpload
  \/ UploadOk
  \/ UploadErr
  \/ \E d \in Range(documents) : DeleteDocument(d)
  \/ \E c \in deletes : BackendDelete(c)
  \/ \E c \in deletes : DeleteOk(c)
  \/ \E c \in deletes : DeleteErr(c)
  \/ \E c \in deletes : BackendReload(c)
  \/ \E c \in deletes : ReloadOk(c)
  \/ \E c \in deletes : ReloadErr(c)
  \/ RebuildClick
  \/ \E i \in 1..Len(timers) : IndexTimerFire(i)
  \/ Tick

EmbNext ==
  \/ InitModelStart
  \/ BackendIsModelLoaded
  \/ InitModelChecked
  \/ BackendInitModel
  \/ InitModelOk
  \/ InitModelErr
  \/ RetryInit
  \/ \E r \in retries : BackendInitModelRetry(r)
  \/ \E r \in retries : RetryOk(r)
  \/ \E r \in retries : RetryErr(r)
  \/ \E q \in Queries, k \in TopKs : Search(q, k)
  \/ \E i \in 1..Len(searches) : BackendSearch(i)
  \/ \E i \in 1..Len(searches) : SearchOk(i)
  \/ \E i \in 1..Len(searches) : SearchErr(i)

\* uploads, rebuilds and their timers: the operations of useDocuments that
\* write indexStatus (loadDocuments and deleteDocument never do; the mount
\* effect is kept because the UI's handlers run only after it)
IndexNext ==
  \/ LoadDocumentsStart
  \/ BackendGetAllDocuments
  \/ LoadDocumentsOk
  \/ LoadDocumentsErr
  \/ UploadClick
  \/ DialogCancel
  \/ DialogSelect
  \/ BackendUpload
  \/ UploadOk
  \/ UploadErr
  \/ RebuildClick
  \/ \E i \in 1..Len(timers) : IndexTimerFire(i)
  \/ Tick

\* useDocuments with its timers; the embedding backend stays unloaded
\* nothing is stored under the settings key
NothingStored == storage.kind = "absent"

InitDocs == Init /\ ~beModelLoaded /\ beChats = <<>> /\ NothingStored
SpecDocs == InitDocs /\ [][DocsNext]_vars

SpecIndex == InitDocs /\ [][IndexNext]_vars

\* a pending timer fires and time passes
FairSpecIndex ==
  /\ SpecIndex
  /\ WF_vars(Tick)
  /\ WF_vars(\E i \in 1..Len(timers) : IndexTimerFire(i))

\* useEmbedding; the document store starts empty
InitEmb == Init /\ beDocs = <<>> /\ beChats = <<>> /\ NothingStored
SpecEmb == InitEmb /\ [][EmbNext]_vars

\* useChat with ChatInput. No operation of useChat reads the documents
\* hook, and ChatInput's disabled flag only takes sends away, so the index
\* status stays 'ready' here: every send the UI can make is made.
SendNext ==
  \/ LoadChatsStart
  \/ BackendGetAllChats
  \/ LoadChatsOk
  \/ LoadChatsErr
  \/ \E l \in loads : BackendGetChat(l)
  \/ \E l \in loads : LoadActiveChatOk(l)
  \/ \E l \in loads : LoadActiveChatErr(l)
  \/ \E id \in ChatIds(chats) : SelectChat(id)
  \/ CreateChat
  \/ \E c \in creates : BackendCreateChat(c)
  \/ \E c \in creates : CreateChatOk(c)
  \/ \E c \in creates : CreateChatErr(c)
  \/ \E m \in Contents : HandleSend(m)
  \/ \E c \in sends : BackendCreateChatForSend(c)
  \/ \E c \in sends : SendChatCreated(c)
  \/ \E c \in sends : BackendAddMessage(c)
  \/ \E c \in sends : SendUserAdded(c)
  \/ \E c \in sends : BackendUpdateTitle(c)
  \/ \E c \in sends : SendTitleUpdated(c)
  \/ \E i \in 1..Len(timers) : SendTimerFire(i)
  \/ \E c \in sends : SendAssistantAdded(c)
  \/ \E c \in sends : SendErr(c)
  \/ Tick

InitSend == Init /\ ~beModelLoaded /\ beDocs = <<>> /\ NothingStored
SpecSend == InitSend /\ [][SendNext]_vars

\* the chat list of useChat: loading, selecting, creating (by the button
\* and by sendMessage's auto-create) and deleting chats. A sendMessage is
\* followed up to its add_message call, whose answer is left pending, or
\* to its failure
ChatNext ==
  \/ LoadChatsStart
  \/ BackendGetAllChats
  \/ LoadChatsOk
  \/ LoadChatsErr
  \/ \E l \in loads : BackendGetChat(l)
  \/ \E l \in loads : LoadActiveChatOk(l)
  \/ \E l \in loads : LoadActiveChatErr(l)
  \/ \E id \in ChatIds(chats) : SelectChat(id)
  \/ CreateChat
  \/ \E c \in creates : BackendCreateChat(c)
  \/ \E c \in creates : CreateChatOk(c)
  \/ \E c \in creates : CreateChatErr(c)
  \/ \E m \in Contents : HandleSend(m)
  \/ \E c \in sends : BackendCreateChatForSend(c)
  \/ \E c \in sends : SendChatCreated(c)
  \/ \E c \in sends : SendErr(c)
  \/ \E id \in ChatIds(chats) : DeleteChat(id)
  \/ \E c \in chatDeletes : BackendDeleteChat(c)
  \/ \E c \in chatDeletes : DeleteChatOk(c)
  \/ \E c \in chatDeletes : DeleteChatErr(c)
  \/ \E c \in chatDeletes : BackendReloadChats(c)
  \/ \E c \in chatDeletes : ReloadChatsOk(c)
  \/ \E c \in chatDeletes : ReloadChatsErr(c)

SpecChat == InitSend /\ [][ChatNext]_vars

\* search beside the index lifecycle: the mount-time model load and the
\* searches of useEmbedding together with rebuilds and their timers
SearchIndexNext ==
  \/ InitModelStart
  \/ BackendIsModelLoaded
  \/ InitModelChecked
  \/ BackendInitModel
  \/ InitModelOk
  \/ InitModelErr
  \/ \E q \in Queries, k \in TopKs : Search(q, k)
  \/ \E i \in 1..Len(searches) : BackendSearch(i)
  \/ \E i \in 1..Len(searches) : SearchOk(i)
  \/ \E i \in 1..Len(searches) : SearchErr(i)
  \/ LoadDocumentsStart
  \/ BackendGetAllDocuments
  \/ LoadDocumentsOk
  \/ LoadDocumentsErr
  \/ RebuildClick
  \/ \E i \in 1..Len(timers) : IndexTimerFire(i)
  \/ Tick

SpecSearchIndex == InitEmb /\ [][SearchIndexNext]_vars

\* useDocuments with its timers, where a pending timer fires and time passes
FairSpecDocs ==
  /\ SpecDocs
  /\ WF_vars(Tick)
  /\ WF_vars(\E i \in 1..Len(timers) : IndexTimerFire(i))

\* ChatInput beside the index lifecycle: sends to the active chat together
\* with uploads, rebuilds and their timers. handleSend reads the message
\* typed, disabled and isLoading, none of which a get_chat answer writes, so
\* the answers of loadActiveChat's get_chat calls are left pending here.
GateNext ==
  \/ LoadDocumentsStart
  \/ BackendGetAllDocuments
  \/ LoadDocumentsOk
  \/ LoadDocumentsErr
  \/ UploadClick
  \/ DialogCancel
  \/ DialogSelect
  \/ BackendUpload
  \/ UploadOk
  \/ UploadErr
  \/ RebuildClick
  \/ \E i \in 1..Len(timers) : IndexTimerFire(i)
  \/ LoadChatsStart
  \/ BackendGetAllChats
  \/ LoadChatsOk
  \/ LoadChatsErr
  \/ \E m \in Contents : HandleSend(m)
  \/ \E c \in sends : BackendCreateChatForSend(c)
  \/ \E c \in sends : SendChatCreated(c)
  \/ \E c \in sends : BackendAddMessage(c)
  \/ \E c \in sends : SendUserAdded(c)
  \/ \E c \in sends : BackendUpdateTitle(c)
  \/ \E c \in sends : SendTitleUpdated(c)
  \/ \E i \in 1..Len(timers) : SendTimerFire(i)
  \/ \E c \in sends : SendAssistantAdded(c)
  \/ \E c \in sends : SendErr(c)
  \/ Tick

\* one chat and no document are stored
InitGate == Init /\ ~beModelLoaded /\ beDocs = <<>> /\ beChats # <<>> /\ NothingStored
SpecGate == InitGate /\ [][GateNext]_vars

\* useSettings alone
SettingsNext ==
  \/ PersistSettings
  \/ \E u \in Updates : UpdateSettings(u)
  \/ ResetSettings

InitSettings == Init /\ ~beModelLoaded /\ beDocs = <<>> /\ beChats = <<>>
SpecSettings == InitSettings /\ [][SettingsNext]_vars

(* ====================== claims about useEmbedding ===================== *)

\* a step in which retryInit is called, or the mount-time initModel starts
LoadRequested ==
  \/ nRetries' # nRetries
  \/ (initCall.pc = "start" /\ initCall'.pc # "start")

\* a step in which the catch of initModel or of retryInit runs
LoadFails ==
  \/ (initCall.pc \in {"check_err", "init_err"} /\ initCall'.pc = "done")
  \/ \E r \in retries : r.pc = "err" /\ r \notin retries'

\* C6: modelStatus changes only along not_loaded->loading, loading->ready,
\* loading->error and error->loading, the last one only in a step that
\* calls retryInit; no other change (such as ready->loading) occurs.
C6_LifecycleOnly ==
  [][ \/ modelStatus' = modelStatus
      \/ <<modelStatus, modelStatus'>> \in
           {<<"not_loaded", "loading">>, <<"loading", "ready">>, <<"loading", "error">>}
      \/ (modelStatus = "error" /\ modelStatus' = "loading" /\ nRetries' = nRetries + 1)
    ]_vars

\* C7: a load requested while modelStatus is 'ready' is a no-op: the
\* status stays 'ready' and no init_embedding_model command is sent.
C7_LoadWhileReadyNoOp ==
  [][ (modelStatus = "ready" /\ LoadRequested)
        => (modelStatus' = "ready" /\ InitCommandsInFlight' = InitCommandsInFlight)
    ]_vars

\* C8: at most one init_embedding_model command is in flight at any time.
C8_OneLoadInFlight == InitCommandsInFlight <= 1

\* C9 (as stated): when a model load fails the status returns to
\* 'not_loaded' with the error recorded.
C9_FailureReturnsToNotLoaded ==
  [][ LoadFails => (modelStatus' = "not_loaded" /\ embError' # null) ]_vars

\* C9 (amended): when a model load fails the status becomes 'error' with
\* the error recorded (error non-null).
C9_FailureSetsError ==
  [][ LoadFails => (modelStatus' = "error" /\ embError' # null) ]_vars

\* a load has failed and nothing else is in flight
C9_Witness ==
  /\ modelStatus = "error"
  /\ embError # null
  /\ initCall.pc = "done"
  /\ retries = {}
  /\ nRetries >= 1

\* C10: a search called while modelStatus is not 'ready' fails with a
\* ModelNotReady error reported to its caller and sends no
\* search_documents command.
C10_SearchFailsModelNotReady ==
  \A i \in 1..Len(searches) :
    searches[i].at # "ready"
      => (searches[i].ret = "ModelNotReady" /\ searches[i].pc = "done")

\* C28: once every search has finished, searchResults holds the rows of
\* the search issued last (when that one returned rows); and isSearching is
\* true while a search_documents command is in flight.
C28_LatestSearchWins ==
  /\ (\E i \in 1..Len(searches) : searches[i].pc = "invoked") => isSearching
  /\ (/\ searches # <<>>
      /\ \A i \in 1..Len(searches) : searches[i].pc = "done"
      /\ searches[Len(searches)].ret = "results")
       => searchResults = ResultsOf(Len(searches))

\* C29: whenever the hook is mounted and no model-load call is in flight,
\* modelStatus is 'ready' exactly when the backend's model is loaded.
C29_ReadyIffBackendLoaded ==
  (EmbMounted /\ initCall.pc = "done" /\ retries = {})
    => (modelStatus = "ready" <=> beModelLoaded)

\* C11: a search requested while indexStatus is 'indexing' or 'error' (the
\* model being ready) fails with IndexNotReady and sends no
\* search_documents command.
C11_SearchFailsIndexNotReady ==
  \A i \in 1..Len(searches) :
    (searches[i].at = "ready" /\ searches[i].idx \in {"indexing", "error"})
      => (searches[i].ret = "IndexNotReady" /\ searches[i].pc = "done")

\* C17: a search whose search_documents command rejects ends with the
\* failure visible to its caller: the hook's error is non-null or the
\* returned promise rejects; it is not turned into a normal result.
C17_CommandFailureSurfaced ==
  [][ \A i \in 1..Len(searches) :
        (searches[i].pc = "err" /\ searches'[i].pc = "done")
          => (embError' # null \/ searches'[i].ret = "rejected")
    ]_vars

\* C20: when the embedding model fails to load, indexStatus becomes 'error'.
C20_LoadFailureSetsIndexError ==
  [][ LoadFails => indexStatus' = "error" ]_vars

(* ====================== claims about useDocuments ===================== *)

\* C12: a document leaves the documents list only once the backend has
\* deleted it: the list never drops a document the backend still holds.
C12_RemovedOnlyAfterBackendDelete ==
  [][ \A d \in Range(documents) :
        d \notin Range(documents') => d \notin Range(beDocs')
    ]_vars

\* C2: at most one indexing job (an upload's indexing phase or a
\* rebuildIndex run) is in progress at any time.
C2_OneIndexingJob == Cardinality(IndexTimers) <= 1

\* C3: at most one rebuildIndex run is active at any time.
C3_OneRebuild == Cardinality(RebuildsRunning) <= 1

\* C4: whenever indexStatus is 'ready' no indexing work is outstanding:
\* no upload's indexing timer is pending and no rebuildIndex is unfinished.
C4_ReadyMeansIdle == indexStatus = "ready" => IndexTimers = {}

\* C5: a successful uploadDocument sets indexStatus to 'indexing', and
\* 'indexing' always leads back to 'ready', whatever uploads and rebuilds
\* interleave.
C5_UploadIndexingThenReady ==
  /\ [][ (upload.pc = "ok" /\ upload'.pc = "idle") => indexStatus' = "indexing" ]_vars
  /\ (indexStatus = "indexing") ~> (indexStatus = "ready")

\* the one upload, started while 'ready' (nothing else ever set
\* 'indexing'), has succeeded and its indexing phase is over
C5_Witness ==
  /\ nUploads = 1
  /\ nRebuilds = 0
  /\ 1 \in Range(documents)
  /\ timers = <<>>
  /\ indexStatus = "ready"

\* C15: when the deletion of the only remaining document has succeeded
\* (deleteDocument returns and the backend holds no document), the
\* documents list is empty; and indexStatus 'indexing' leads to 'ready'.
C15_LastDeleteLeavesEmptyReady ==
  /\ [][ \A c \in deletes :
           (c.pc = "ok" /\ c \notin deletes' /\ beDocs = <<>>) => documents' = <<>>
       ]_vars
  /\ (indexStatus # "ready") ~> (indexStatus = "ready")

\* uploadDocument's catch in a step
UploadFails == upload.pc = "err" /\ upload'.pc = "idle"

\* C16: a failed uploadDocument leaves the documents list and indexStatus
\* unchanged, records the failure in error, returns null and leaves
\* isUploading false.
C16_FailedUploadIsolated ==
  [][ UploadFails
        => /\ documents' = documents
           /\ indexStatus' = indexStatus
           /\ indexStatus' # "error"
           /\ docsError' # null
           /\ upload'.ret = "null"
           /\ ~isUploading'
    ]_vars

\* an upload has failed: nothing listed, error recorded, null returned
C16_Witness ==
  /\ nUploads = 1
  /\ upload.pc = "idle"
  /\ upload.ret = "null"
  /\ docsError = "upload failed"
  /\ ~isUploading
  /\ indexStatus = "ready"
  /\ loadDocs.pc = "done"
  /\ documents = beDocs

\* C21: when delete_document_cmd fails the failure is recorded in error,
\* and once deleteDocument has finished the document it removed is in the
\* documents list again.
C21_FailedDeleteRestoresDocument ==
  [][ \A c \in deletes :
        /\ (c.pc = "err" /\ c \notin deletes') => docsError' # null
        /\ (c.pc \in {"reload_ok", "reload_err"} /\ c \notin deletes')
             => c.doc \in Range(documents')
    ]_vars

\* how many times d is listed in ds
RECURSIVE Count(_, _)
Count(ds, d) ==
  IF ds = <<>> THEN 0 ELSE (IF Head(ds) = d THEN 1 ELSE 0) + Count(Tail(ds), d)

\* a step in which deleteDocument(d) is called
DeleteRequested(d) == \E c \in deletes' \ deletes : c.doc = d

\* C27: a document that uploadDocument returns is listed exactly once, and
\* an uploaded document that is listed once stays listed exactly once in
\* every step that does not call deleteDocument for it.
C27_UploadedStaysListedOnce ==
  [][ /\ (upload.pc = "ok" /\ upload'.pc = "idle") => Count(documents', upload.doc) = 1
      /\ \A d \in 1..nUploads :
           (/\ Count(documents, d) = 1
            /\ ~(upload.pc = "ok" /\ upload.doc = d)
            /\ ~DeleteRequested(d))
             => Count(documents', d) = 1
    ]_vars

(* ================== claims about useChat and ChatInput ================ *)

\* the messages of a list whose id is u or a, in their order
RECURSIVE Pick(_, _, _)
Pick(ms, u, a) ==
  IF ms = <<>> THEN <<>>
  ELSE IF Head(ms).id \in {u, a} THEN <<Head(ms).id>> \o Pick(Tail(ms), u, a)
       ELSE Pick(Tail(ms), u, a)

\* C13: a sendMessage made while the embedding model is not loaded ends
\* with an assistant message appended whose source list is empty.
C13_UngroundedAnswerHasNoSources ==
  [][ \A c \in sends :
        (c.pc = "asst_ok" /\ c \notin sends' /\ modelStatus # "ready" /\ ~beModelLoaded)
          => LET ms == MessagesOf(chats', c.chatId)
             IN /\ ms # <<>>
                /\ ms[Len(ms)].role = "assistant"
                /\ ms[Len(ms)].sources = <<>>
    ]_vars

\* C14: when a sendMessage ends successfully, its chat holds the user
\* message and the assistant message of the call exactly once each, the
\* user message first, no other chat holds either, and the steps of the
\* call that write the list change no other chat.
C14_SendAppendsTwoToOneChat ==
  [][ \A c \in sends :
        /\ (c.pc = "asst_ok" /\ c \notin sends')
             => /\ Pick(MessagesOf(chats', c.chatId), c.userMessage, c.res.id)
                     = <<c.userMessage, c.res.id>>
                /\ \A i \in 1..Len(chats') :
                     chats'[i].id # c.chatId
                       => Pick(chats'[i].messages, c.userMessage, c.res.id) = <<>>
        /\ (c.pc \in {"user_ok", "asst_ok"} /\ c \notin sends' /\ Len(chats') = Len(chats))
             => \A i \in 1..Len(chats) :
                  chats[i].id # c.chatId => chats'[i].messages = chats[i].messages
    ]_vars

\* C25: in every reachable state each chat's local message list is an
\* in-order copy of a prefix of the messages the backend stores for that
\* chat, so that no message id is listed twice, whatever the order in which
\* get_chat and add_message answers are handled
C25_LocalIsBackendPrefix ==
  \A i \in 1..Len(chats) :
    \E j \in 1..Len(beChats) :
      /\ beChats[j].id = chats[i].id
      /\ Len(chats[i].messages) <= Len(beChats[j].messages)
      /\ chats[i].messages = SubSeq(beChats[j].messages, 1, Len(chats[i].messages))

\* C23: sendMessage goes on to update a chat's title only when the backend
\* held no message of that chat before the send (the stored user message is
\* the chat's only message), and the title it then sets is the first 30
\* characters of the content, followed by '...' exactly when the content is
\* longer than 30 characters.
C23_TitleOnlyOnFirstMessage ==
  [][ \A c \in sends :
        /\ (c.pc = "user_ok" /\ \E d \in sends' : d.id = c.id /\ d.pc = "title_invoked")
             => MessagesOf(beChats, c.chatId) = <<c.res>>
        /\ (c.pc = "title_ok" /\ c \notin sends')
             => \A i \in 1..Len(chats') :
                  chats'[i].id = c.chatId
                    => chats'[i].title =
                         (IF Len(c.content) > 30
                            THEN SubSeq(c.content, 1, 30) \o <<".", ".", ".">>
                            ELSE c.content)
    ]_vars

\* C22: when delete_chat has failed and deleteChat finishes (its reload of
\* the list having succeeded), the chat is in the list again, every chat
\* that had messages loaded before the call still lists them, and a call
\* that started with an active chat leaves an active chat behind.
C22_FailedDeleteRestoresChats ==
  [][ \A c \in chatDeletes :
        (c.pc = "reload_ok" /\ c \notin chatDeletes')
          => /\ c.chat \in ChatIds(chats')
             /\ \A b \in Range(c.before) :
                  LET ms == MessagesOf(chats', b.id)
                  IN /\ Len(ms) >= Len(b.messages)
                     /\ SubSeq(ms, 1, Len(b.messages)) = b.messages
             /\ c.beforeActive # NoChat => activeChatId' # NoChat
    ]_vars

\* C26: in every reachable state activeChatId is null or the id of a chat
\* of the chats list.
C26_ActiveChatListed ==
  activeChatId = NoChat \/ activeChatId \in ChatIds(chats)

\* C19: no sendMessage is started from ChatInput in a state where
\* indexStatus is 'indexing'.
C19_NoSendWhileIndexing ==
  [][ nSends' # nSends => indexStatus # "indexing" ]_vars

\* a send was started, and later the index is 'indexing' with the input
\* disabled while no send is in flight
C19_Witness ==
  /\ nSends >= 1
  /\ sends = {}
  /\ ~isLoading
  /\ ChatInputRendered
  /\ indexStatus = "indexing"
  /\ \A m \in Contents : ~CanSend(m)

\* C1: no two sendMessage calls are in flight for the same chat.
C1_OneSendPerChat ==
  \A id \in ChatIds(chats) \cup ChatIds(beChats) : Cardinality(SendsInFlight(id)) <= 1

\* a sendMessage is in flight for the active chat, the input is rendered
\* and not disabled, and handleSend rejects every text
C1_Witness ==
  /\ ChatInputRendered
  /\ ~ChatInputDisabled
  /\ \E c \in sends : c.chatId # NoChat /\ c.chatId = activeChatId
  /\ \A m \in Contents : ~CanSend(m)

(* ====================== claims about useSettings ====================== *)

\* C18: in every reachable state of useSettings temperature is in [0,1]
\* (0..10 tenths), maxTokens in [256,8192], chunkSize in [128,2048] and
\* topK in [1,20].
C18_SettingsInRange ==
  /\ settings.temperature \in 0..10
  /\ settings.maxTokens \in 256..8192
  /\ settings.chunkSize \in 128..2048
  /\ settings.topK \in 1..20

\* C24: after every change made by updateSettings or resetSettings, the
\* persistence effect having run, the value stored under the settings key
\* is the current settings, initialising the hook from the stored value
\* gives the same settings again, and after resetSettings the settings are
\* exactly the defaults.
C24_StoreLoadRoundTrip ==
  settingsOp # "none" =>
    /\ storage.kind = "json"
    /\ storage.value = settings
    /\ InitialSettings(storage) = settings
    /\ (settingsOp = "reset" => settings = defaultSettings)

====
